---------------------------- MODULE Spec2Model ----------------------------
(***************************************************************************)
(* Model of src/src/constraints.rs: the in-circuit sponge interface        *)
(* (CryptographicSpongeVar), its default non-native squeeze, the           *)
(* bit-to-field reconstruction bits_le_to_nonnative, and the               *)
(* DomainSeparatedSpongeVar wrapper.                                       *)
(*                                                                         *)
(* The two fields F (target) and CF (circuit) are generic parameters of    *)
(* the code; the model instantiates them with small prime fields so that   *)
(* every value can be enumerated.                                          *)
(***************************************************************************)
EXTENDS Integers, Sequences, FiniteSets, TLC

(***************************************************************************)
(* Bounds of the model.                                                    *)
(***************************************************************************)
\* most bit sequences in one bits_le_to_nonnative batch
MaxSeqs == 2
\* most bits in one batch, all sequences together
MaxTotalBits == 4
\* largest num_bits of a Truncated size descriptor
MaxTruncated == 2
\* most bits in one batch of the runs that are tampered with or compared
MaxTamperBits == 2
\* most public operations called on one wrapper
MaxOps == 3
\* most bytes in a domain identifier
MaxDomainLen == 2

(***************************************************************************)
(* The generic parameters F and CF, and the emulation parameters.          *)
(***************************************************************************)
\* order of the target field F (F: PrimeField)
F_MODULUS == 5
\* order of the circuit field CF (CF: PrimeField)
CF_MODULUS == 11

RECURSIVE BitLength(_)
BitLength(n) == IF n = 0 THEN 0 ELSE 1 + BitLength(n \div 2)

\* F::size_in_bits()
F_size_in_bits == BitLength(F_MODULUS)

\* get_params(F::size_in_bits(), CF::size_in_bits(), OptimizationType::Constraints)
params == [num_limbs |-> 2, bits_per_limb |-> 2]

RECURSIVE Pow(_, _)
Pow(b, e) == IF e = 0 THEN 1 ELSE b * Pow(b, e - 1)

Max(a, b) == IF a >= b THEN a ELSE b

\* sum of f[1..n] for a function or sequence f of integers
RECURSIVE SumTo(_, _)
SumTo(f, n) == IF n = 0 THEN 0 ELSE f[n] + SumTo(f, n - 1)


(***************************************************************************)
(* Arithmetic of CF and linear combinations over the variables of the      *)
(* constraint system.  Variable 0 is Variable::One, variable v >= 1 is the *)
(* v-th witness variable.                                                  *)
(***************************************************************************)
CF == 0 .. (CF_MODULUS - 1)

\* a LinearCombination<CF> is its list of terms (coefficient, variable)
\* lc!(): LinearCombination::zero()
lc_zero == << >>
\* a single variable with coefficient 1
lc_var(x) == << [coeff |-> 1, var |-> x] >>
lc_scale(a, c) ==
    [i \in 1 .. Len(a) |-> [coeff |-> (a[i].coeff * c) % CF_MODULUS, var |-> a[i].var]]
lc_add(a, b) == a \o b
lc_sub(a, b) == a \o lc_scale(b, CF_MODULUS - 1)

\* the entry of a witness variable that has been given no value (the
\* constraint system is in setup mode)
NoValue == CF_MODULUS

\* the value of variable v under the witness assignment w
var_value(w, v) == IF v = 0 THEN 1 ELSE IF v <= Len(w) THEN w[v] ELSE 0

\* the value of a linear combination under the witness assignment w
lc_eval(l, w) ==
    SumTo([i \in 1 .. Len(l) |-> l[i].coeff * var_value(w, l[i].var)], Len(l))
        % CF_MODULUS

(***************************************************************************)
(* Boolean<CF>: a constant, an allocated bit, or the negation of one.      *)
(***************************************************************************)
BoolConstant(b) == [kind |-> "Constant", variable |-> 0, value |-> b]
BoolIs(v) == [kind |-> "Is", variable |-> v, value |-> FALSE]
BoolNot(v) == [kind |-> "Not", variable |-> v, value |-> FALSE]

\* bit.value().unwrap_or_default(): the witnessed value of the bit, false
\* when the bit's variable has no value
bit_value(bit, w) ==
    CASE bit.kind = "Constant" -> bit.value
      [] bit.kind = "Is" -> var_value(w, bit.variable) = 1
      [] bit.kind = "Not" -> var_value(w, bit.variable) = 0

\* bit.lc()
bit_lc(bit) ==
    CASE bit.kind = "Constant" -> IF bit.value THEN lc_var(0) ELSE lc_zero
      [] bit.kind = "Is" -> lc_var(bit.variable)
      [] bit.kind = "Not" -> lc_sub(lc_var(0), lc_var(bit.variable))

(***************************************************************************)
(* The constraint system behind a ConstraintSystemRef<CF>.  kind = "None"  *)
(* is ConstraintSystemRef::None, on which every allocation and every       *)
(* enforcement returns Err(SynthesisError::MissingCS); kind = "Setup" is a *)
(* constraint system in setup mode, which allocates variables without      *)
(* computing their values.                                                 *)
(***************************************************************************)
new_cs(kind, w) == [kind |-> kind, witness |-> w, constraints |-> << >>, log |-> << >>]

\* cs.is_satisfied(): every constraint a * b = c holds under the assignment
is_satisfied(c) ==
    \A i \in 1 .. Len(c.constraints) :
        (lc_eval(c.constraints[i].a, c.witness) * lc_eval(c.constraints[i].b, c.witness))
            % CF_MODULUS = lc_eval(c.constraints[i].c, c.witness)

(***************************************************************************)
(* bits_le_to_nonnative (lines 15-81).                                     *)
(***************************************************************************)
\* max_nonnative_bits: the fold of lines 21-23
RECURSIVE max_nonnative_bits(_)
max_nonnative_bits(all_bits) ==
    IF all_bits = << >> THEN 0
    ELSE Max(Len(all_bits[Len(all_bits)]),
             max_nonnative_bits(SubSeq(all_bits, 1, Len(all_bits) - 1)))

\* the n least significant limbs of elem, most significant first
RECURSIVE limbs_of(_, _)
limbs_of(elem, n) ==
    IF n = 0 THEN << >>
    ELSE Append(limbs_of(elem \div Pow(2, params.bits_per_limb), n - 1),
                elem % Pow(2, params.bits_per_limb))

\* AllocatedNonNativeFieldVar::get_limbs_representations(elem, Constraints):
\* the num_limbs limbs of bits_per_limb bits of elem, most significant first
get_limbs_representations(elem) == limbs_of(elem, params.num_limbs)

\* cur after j rounds of cur.double_in_place(), starting from F::one()
RECURSIVE cur_after(_)
cur_after(j) == IF j = 0 THEN 1 % F_MODULUS ELSE (2 * cur_after(j - 1)) % F_MODULUS

\* lookup_table with cur doubled before it is pushed
RECURSIVE lookup_table_double_first(_)
lookup_table_double_first(n) ==
    IF n = 0 THEN << >>
    ELSE Append(lookup_table_double_first(n - 1), get_limbs_representations(cur_after(n)))

\* lookup_table filled from the most significant position of the batch down
lookup_table_from_top(n) ==
    [j \in 1 .. n |-> get_limbs_representations(cur_after(n - j))]

\* lookup_table of lines 25-34; entry j + 1 is pushed in round j of the loop
RECURSIVE lookup_table(_)
lookup_table(n) ==
    IF n = 0 THEN << >>
    ELSE Append(lookup_table(n - 1), get_limbs_representations(cur_after(n - 1)))

\* val[k] after the loop of lines 47-58: the table entries of the bits whose
\* witnessed value is true, added in CF
limb_val(bits, table, w, k) ==
    SumTo([j \in 1 .. Len(bits) |-> IF bit_value(bits[j], w) THEN table[j][k] ELSE 0],
          Len(bits)) % CF_MODULUS

\* lc[k] after the loop of lines 47-58: bit.lc() * lookup_table[j][k] over
\* every bit position j
RECURSIVE limb_lc(_, _, _, _)
limb_lc(bits, table, k, n) ==
    IF n = 0 THEN lc_zero
    ELSE lc_add(limb_lc(bits, table, k, n - 1), lc_scale(bit_lc(bits[n]), table[n][k]))

\* the constraint of line 65 without the allocated limb subtracted
limb_constraint_no_limb(l, v) == [a |-> lc_zero, b |-> lc_zero, c |-> l]

\* the constraint of line 65 for a limb allocated as variable v:
\* enforce_constraint(lc!(), lc!(), lc[k] - (CF::one(), gadget.variable))
limb_constraint(l, v) == [a |-> lc_zero, b |-> lc_zero, c |-> lc_sub(l, lc_var(v))]

\* the loop of lines 60-67 run from the last limb down to the first
RECURSIVE alloc_limbs_descending(_, _, _, _)
alloc_limbs_descending(c, val, l, n) ==
    IF n = 0 THEN [cs |-> c, limbs |-> << >>]
    ELSE LET prev == alloc_limbs_descending(c, val, l, n - 1)
             k == Len(val) - n + 1
             v == Len(prev.cs.witness) + 1
         IN  [cs |-> [prev.cs EXCEPT
                        !.witness = Append(@, IF prev.cs.kind = "Setup" THEN NoValue
                                              ELSE val[k]),
                        !.constraints = Append(@, limb_constraint(l[k], v)),
                        !.log = @ \o << [op |-> "new_witness", variable |-> v],
                                        [op |-> "enforce_constraint",
                                         index |-> Len(prev.cs.constraints) + 1] >>],
              limbs |-> << [variable |-> v, value |-> val[k]] >> \o prev.limbs]

\* the loop of lines 60-67 on a constraint system that allocates: limb k is
\* allocated as a fresh witness holding val[k], then constrained
RECURSIVE alloc_limbs(_, _, _, _)
alloc_limbs(c, val, l, n) ==
    IF n = 0 THEN [cs |-> c, limbs |-> << >>]
    ELSE LET prev == alloc_limbs(c, val, l, n - 1)
             v == Len(prev.cs.witness) + 1
         IN  [cs |-> [prev.cs EXCEPT
                        !.witness = Append(@, IF prev.cs.kind = "Setup" THEN NoValue
                                              ELSE val[n]),
                        !.constraints = Append(@, limb_constraint(l[n], v)),
                        !.log = @ \o << [op |-> "new_witness", variable |-> v],
                                        [op |-> "enforce_constraint",
                                         index |-> Len(prev.cs.constraints) + 1] >>],
              limbs |-> Append(prev.limbs, [variable |-> v, value |-> val[n]])]

\* one round of the loop with lc[k] summed, as val[k] is, over the bits whose
\* witnessed value is true
nonnative_of_true_bits_only(c, bits, table) ==
    LET val == [k \in 1 .. params.num_limbs |-> limb_val(bits, table, c.witness, k)]
        kept == [j \in 1 .. Len(bits) |->
                    IF bit_value(bits[j], c.witness) THEN bits[j] ELSE BoolConstant(FALSE)]
        l == [k \in 1 .. params.num_limbs |-> limb_lc(kept, table, k, Len(bits))]
        done == alloc_limbs(c, val, l, params.num_limbs)
    IN  [cs |-> done.cs,
         gadget |-> [limbs |-> done.limbs,
                     num_of_additions_over_normal_form |-> 0,
                     is_in_the_normal_form |-> TRUE]]

\* one round of the loop of lines 43-78 for the bit sequence bits
nonnative_of(c, bits, table) ==
    LET val == [k \in 1 .. params.num_limbs |-> limb_val(bits, table, c.witness, k)]
        l == [k \in 1 .. params.num_limbs |-> limb_lc(bits, table, k, Len(bits))]
        done == alloc_limbs(c, val, l, params.num_limbs)
    IN  [cs |-> done.cs,
         gadget |-> [limbs |-> done.limbs,
                     num_of_additions_over_normal_form |-> 0,
                     is_in_the_normal_form |-> TRUE]]

\* the loop of lines 43-78 over the first n sequences
RECURSIVE reconstruct(_, _, _, _)
reconstruct(c, all_bits, table, n) ==
    IF n = 0 THEN [cs |-> c, output |-> << >>]
    ELSE LET prev == reconstruct(c, all_bits, table, n - 1)
             one == nonnative_of(prev.cs, all_bits[n], table)
         IN  [cs |-> one.cs, output |-> Append(prev.output, one.gadget)]

\* the whole function: Ok(output), or the panic of the unwrap of line 63 when
\* the first allocation fails (cs is ConstraintSystemRef::None)
bits_le_to_nonnative(c, all_bits) ==
    LET table == lookup_table(max_nonnative_bits(all_bits))
    IN  IF all_bits # << >> /\ c.kind = "None" /\ params.num_limbs > 0
        THEN [status |-> "Panic", output |-> << >>, cs |-> c]
        ELSE LET r == reconstruct(c, all_bits, table, Len(all_bits))
             IN  [status |-> "Ok", output |-> r.output, cs |-> r.cs]

(***************************************************************************)
(* CryptographicSpongeVar: a concrete sponge gadget, and the default       *)
(* non-native squeezes of the trait (lines 107-146).  The concrete sponge  *)
(* records the calls it receives; what a call answers is the sponge's own  *)
(* matter and is given by the environment (env).                           *)
(***************************************************************************)
Full == [kind |-> "Full", num_bits |-> 0]
Truncated(n) == [kind |-> "Truncated", num_bits |-> n]

\* FieldElementSize::num_bits::<F>()
num_bits(size) == IF size.kind = "Full" THEN F_size_in_bits ELSE size.num_bits

new_sponge == [log |-> << >>]

\* self.squeeze_bits(n) of the concrete sponge: n fresh allocated bits holding
\* env.bits (constants when there is no constraint system), or an error
squeeze_bits(sp, c, n, env) ==
    LET sp2 == [sp EXCEPT !.log = Append(@, [op |-> "squeeze_bits", arg |-> n])]
    IN  IF ~env.ok THEN [ok |-> FALSE, bits |-> << >>, sponge |-> sp2, cs |-> c]
        ELSE IF c.kind = "None"
        THEN [ok |-> TRUE, bits |-> [j \in 1 .. n |-> BoolConstant(env.bits[j])],
              sponge |-> sp2, cs |-> c]
        ELSE [ok |-> TRUE, bits |-> [j \in 1 .. n |-> BoolIs(Len(c.witness) + j)],
              sponge |-> sp2,
              cs |-> [c EXCEPT !.witness =
                        @ \o [j \in 1 .. n |-> IF env.bits[j] THEN 1 ELSE 0]]]

\* total_bits of lines 117-119
RECURSIVE total_bits(_)
total_bits(sizes) ==
    IF sizes = << >> THEN 0 ELSE num_bits(Head(sizes)) + total_bits(Tail(sizes))

\* dest_bits with a window that never advances
RECURSIVE dest_bits_same_window(_, _)
dest_bits_same_window(bits_window, sizes) ==
    IF sizes = << >> THEN << >>
    ELSE << SubSeq(bits_window, 1, num_bits(Head(sizes))) >>
             \o dest_bits_same_window(bits_window, Tail(sizes))

\* dest_bits of lines 123-132: the window is cut size by size
RECURSIVE dest_bits(_, _)
dest_bits(bits_window, sizes) ==
    IF sizes = << >> THEN << >>
    ELSE LET n == num_bits(Head(sizes))
         IN  << SubSeq(bits_window, 1, n) >>
                 \o dest_bits(SubSeq(bits_window, n + 1, Len(bits_window)), Tail(sizes))

\* the sized squeeze without the early return of lines 111-113
squeeze_with_sizes_no_early_return(sp, c, sizes, env) ==
    LET r == squeeze_bits(sp, c, total_bits(sizes), env)
    IN  IF ~r.ok
        THEN [status |-> "Err", gadgets |-> << >>, bits |-> << >>,
              sponge |-> r.sponge, cs |-> r.cs]
        ELSE LET d == dest_bits(r.bits, sizes)
                 g == bits_le_to_nonnative(r.cs, d)
             IN  [status |-> g.status, gadgets |-> g.output,
                  bits |-> IF g.status = "Ok" THEN d ELSE << >>,
                  sponge |-> r.sponge, cs |-> g.cs]

\* the default squeeze_nonnative_field_elements_with_sizes (lines 107-137)
squeeze_nonnative_field_elements_with_sizes(sp, c, sizes, env) ==
    IF Len(sizes) = 0
    THEN [status |-> "Ok", gadgets |-> << >>, bits |-> << >>, sponge |-> sp, cs |-> c]
    ELSE LET r == squeeze_bits(sp, c, total_bits(sizes), env)
         IN  IF ~r.ok
             THEN [status |-> "Err", gadgets |-> << >>, bits |-> << >>,
                   sponge |-> r.sponge, cs |-> r.cs]
             ELSE LET d == dest_bits(r.bits, sizes)
                      g == bits_le_to_nonnative(r.cs, d)
                  IN  [status |-> g.status, gadgets |-> g.output,
                       bits |-> IF g.status = "Ok" THEN d ELSE << >>,
                       sponge |-> r.sponge, cs |-> g.cs]

\* the unsized squeeze asking for one descriptor too few
squeeze_nonnative_one_short(sp, c, num_elements, env) ==
    squeeze_nonnative_field_elements_with_sizes(
        sp, c, [i \in 1 .. (num_elements - 1) |-> Full], env)

\* the default squeeze_nonnative_field_elements (lines 139-146)
squeeze_nonnative_field_elements(sp, c, num_elements, env) ==
    squeeze_nonnative_field_elements_with_sizes(
        sp, c, [i \in 1 .. num_elements |-> Full], env)

(***************************************************************************)
(* DomainSeparatedSpongeVar (lines 149-241).  The wrapped sponge SV is any *)
(* implementation of the trait: it records the calls it receives, each     *)
(* marked (for the properties only) as the wrapper's tag absorb or as a    *)
(* forwarded call, and answers Ok or Err as the environment decides.  What *)
(* an Ok call returns is the transcript the sponge has received so far.    *)
(***************************************************************************)
\* FpVar<CF>
FpConstant(x) == [kind |-> "Constant", value |-> x]
FpVariable(x) == [kind |-> "Var", value |-> x]

\* the bytes of one chunk as an integer, little-endian, the missing high
\* bytes being zero
RECURSIVE read_le(_)
read_le(chunk) == IF chunk = << >> THEN 0 ELSE Head(chunk) + 256 * read_le(Tail(chunk))

\* the most bytes of one chunk: CAPACITY / 8 of the circuit field
max_size == 2

\* D::domain().to_field_elements().unwrap(): one element per chunk of
\* max_size bytes
RECURSIVE to_field_elements(_)
to_field_elements(bytes) ==
    IF bytes = << >> THEN << >>
    ELSE IF Len(bytes) <= max_size THEN << read_le(bytes) >>
    ELSE << read_le(SubSeq(bytes, 1, max_size)) >>
             \o to_field_elements(SubSeq(bytes, max_size + 1, Len(bytes)))

\* the calls the wrapped sponge has received, without the marks
transcript(sp) == [i \in 1 .. Len(sp.log) |-> [op |-> sp.log[i].op, arg |-> sp.log[i].arg]]

SynthesisError == [ok |-> FALSE, out |-> << >>]

\* a call on the wrapped sponge
sponge_call(sp, op, arg, origin, ok) ==
    LET sp2 == [sp EXCEPT !.log = Append(@, [op |-> op, arg |-> arg,
                                              origin |-> origin, ok |-> ok])]
    IN  [sponge |-> sp2,
         res |-> IF ok THEN [ok |-> TRUE, out |-> transcript(sp2)] ELSE SynthesisError]

\* DomainSeparatedSpongeVar::new (lines 196-204); domain is D::domain()
new_wrapper(domain) ==
    [sponge |-> new_sponge, domain_separated |-> FALSE, domain |-> domain]

\* try_separate_domain that absorbs the tag whatever the flag says
try_separate_domain_unguarded(w, env) ==
    LET elems == to_field_elements(w.domain)
        elem_vars == [i \in 1 .. Len(elems) |-> FpConstant(elems[i])]
        r == sponge_call(w.sponge, "absorb", elem_vars, "tag", env.tag_ok)
    IN  IF ~r.res.ok
        THEN [res |-> r.res, wrapper |-> [w EXCEPT !.sponge = r.sponge]]
        ELSE [res |-> r.res,
              wrapper |-> [w EXCEPT !.sponge = r.sponge, !.domain_separated = TRUE]]

\* try_separate_domain that sets the flag before it absorbs the tag
try_separate_domain_flag_first(w, env) ==
    IF ~w.domain_separated
    THEN LET elems == to_field_elements(w.domain)
             elem_vars == [i \in 1 .. Len(elems) |-> FpConstant(elems[i])]
             r == sponge_call(w.sponge, "absorb", elem_vars, "tag", env.tag_ok)
         IN  [res |-> IF r.res.ok THEN [ok |-> TRUE, out |-> << >>] ELSE r.res,
              wrapper |-> [w EXCEPT !.sponge = r.sponge, !.domain_separated = TRUE]]
    ELSE [res |-> [ok |-> TRUE, out |-> << >>], wrapper |-> w]

\* try_separate_domain (lines 172-185)
try_separate_domain(w, env) ==
    IF ~w.domain_separated
    THEN LET elems == to_field_elements(w.domain)
             elem_vars == [i \in 1 .. Len(elems) |-> FpConstant(elems[i])]
             r == sponge_call(w.sponge, "absorb", elem_vars, "tag", env.tag_ok)
         IN  IF ~r.res.ok
             THEN [res |-> r.res, wrapper |-> [w EXCEPT !.sponge = r.sponge]]
             ELSE [res |-> r.res,
                   wrapper |-> [w EXCEPT !.sponge = r.sponge,
                                         !.domain_separated = TRUE]]
    ELSE [res |-> [ok |-> TRUE, out |-> << >>], wrapper |-> w]

\* self.sponge.<op>(arg) after self.try_separate_domain()?
forwarded(w, op, arg, env) ==
    LET s == try_separate_domain(w, env)
    IN  IF ~s.res.ok THEN [wrapper |-> s.wrapper, ret |-> s.res]
        ELSE LET r == sponge_call(s.wrapper.sponge, op, arg, "forward", env.fwd_ok)
             IN  [wrapper |-> [s.wrapper EXCEPT !.sponge = r.sponge], ret |-> r.res]

\* absorb forwarding one element too few
wrapper_absorb_truncating(w, input, env) ==
    forwarded(w, "absorb", SubSeq(input, 1, Len(input) - 1), env)

\* absorb (lines 210-213)
wrapper_absorb(w, input, env) == forwarded(w, "absorb", input, env)

\* squeeze_bytes (lines 215-218)
wrapper_squeeze_bytes(w, num_bytes, env) == forwarded(w, "squeeze_bytes", num_bytes, env)

\* squeeze_bits (lines 220-223)
wrapper_squeeze_bits(w, n, env) == forwarded(w, "squeeze_bits", n, env)

\* squeeze_field_elements (lines 225-231)
wrapper_squeeze_field_elements(w, num_elements, env) ==
    forwarded(w, "squeeze_field_elements", num_elements, env)

\* squeeze_nonnative_field_elements_with_sizes (lines 233-240)
wrapper_squeeze_nonnative_field_elements_with_sizes(w, sizes, env) ==
    forwarded(w, "squeeze_nonnative_field_elements_with_sizes", sizes, env)

\* squeeze_nonnative_field_elements: the default of lines 139-146, which calls
\* the wrapper's own sized squeeze
wrapper_squeeze_nonnative_field_elements(w, num_elements, env) ==
    wrapper_squeeze_nonnative_field_elements_with_sizes(
        w, [i \in 1 .. num_elements |-> Full], env)

\* cs that separates the domain as the other methods do
wrapper_cs_separating(w, c) ==
    [wrapper |-> try_separate_domain(w, [tag_ok |-> TRUE, fwd_ok |-> TRUE]).wrapper,
     ret |-> [ok |-> TRUE, out |-> c]]

\* cs (lines 206-208): &self, it returns the constraint system of the wrapped
\* sponge
wrapper_cs(w, c) == [wrapper |-> w, ret |-> [ok |-> TRUE, out |-> c]]

\* the public operation c of the wrapper
wrapper_call(w, c, env) ==
    CASE c.op = "absorb" -> wrapper_absorb(w, c.arg, env)
      [] c.op = "squeeze_bytes" -> wrapper_squeeze_bytes(w, c.arg, env)
      [] c.op = "squeeze_bits" -> wrapper_squeeze_bits(w, c.arg, env)
      [] c.op = "squeeze_field_elements" -> wrapper_squeeze_field_elements(w, c.arg, env)
      [] c.op = "squeeze_nonnative_field_elements_with_sizes" ->
            wrapper_squeeze_nonnative_field_elements_with_sizes(w, c.arg, env)
      [] c.op = "squeeze_nonnative_field_elements" ->
            wrapper_squeeze_nonnative_field_elements(w, c.arg, env)

(***************************************************************************)
(* State.                                                                  *)
(***************************************************************************)
VARIABLES
    pc,       \* "idle" before the call under study, "done" after it,
              \* "tampered" once the prover has changed a witness value
    cs,       \* the constraint system
    sponge,   \* the concrete sponge gadget
    call,     \* the call made: its name, its arguments, the state it started in
    ret,      \* what the call returned
    wrapper,  \* a DomainSeparatedSpongeVar around a concrete sponge
    history,  \* the public operations called on the wrapper, in order
    last      \* the last of them: the wrapper before it and what it returned

vars == << pc, cs, sponge, call, ret, wrapper, history, last >>
gadget_vars == << pc, cs, sponge, call, ret >>
wrapper_vars == << wrapper, history, last >>

(***************************************************************************)
(* The inputs of bits_le_to_nonnative.  A batch is drawn as the lengths of *)
(* its sequences and, per bit, the kind of Boolean and its witnessed       *)
(* value; every allocated bit is a witness variable of its own, allocated  *)
(* by the caller before the call.                                          *)
(***************************************************************************)
\* the bits a caller can pass: with no constraint system every bit is a
\* constant, with one the bits are of the given kinds; in setup mode an
\* allocated bit has no value (b is not used)
BitChoices(cs_kind, kinds) ==
    CASE cs_kind = "None" -> [kind : {"Constant"}, b : BOOLEAN]
      [] cs_kind = "Setup" -> [kind : kinds \cap {"Constant"}, b : BOOLEAN]
                                 \cup [kind : kinds \ {"Constant"}, b : {FALSE}]
      [] OTHER -> [kind : kinds, b : BOOLEAN]

\* the answers of squeeze_bits(n): n bits when it succeeds
BitStreams(ok, n) ==
    IF ok THEN [1 .. n -> BOOLEAN] ELSE {[j \in 1 .. n |-> FALSE]}

LengthLists(most) ==
    {lens \in UNION {[1 .. n -> 0 .. most] : n \in 0 .. MaxSeqs} :
        SumTo(lens, Len(lens)) <= most}

\* how many of the first p bits are allocated variables
allocated_before(flat, p) == Cardinality({i \in 1 .. p : flat[i].kind # "Constant"})

\* the witness values of the allocated bits, in order of allocation
bit_witness(flat) ==
    [n \in 1 .. allocated_before(flat, Len(flat)) |->
        LET p == CHOOSE q \in 1 .. Len(flat) :
                    flat[q].kind # "Constant" /\ allocated_before(flat, q) = n
        IN  IF flat[p].b = (flat[p].kind = "Is") THEN 1 ELSE 0]

\* the witness the constraint system holds for the allocated bits
input_witness(cs_kind, flat) ==
    IF cs_kind = "Setup"
    THEN [n \in 1 .. allocated_before(flat, Len(flat)) |-> NoValue]
    ELSE bit_witness(flat)

\* the Boolean<CF> of the p-th bit
bit_term(flat, p) ==
    CASE flat[p].kind = "Constant" -> BoolConstant(flat[p].b)
      [] flat[p].kind = "Is" -> BoolIs(allocated_before(flat, p))
      [] flat[p].kind = "Not" -> BoolNot(allocated_before(flat, p))

\* the batch: sequence i holds lens[i] bits
batch_of(flat, lens) ==
    [i \in 1 .. Len(lens) |->
        LET off == SumTo(lens, i - 1)
        IN  [j \in 1 .. lens[i] |-> bit_term(flat, off + j)]]

SizeChoices == {Full} \cup {Truncated(n) : n \in 0 .. MaxTruncated}
SizeLists == UNION {[1 .. n -> SizeChoices] : n \in 0 .. MaxSeqs}
CsKinds == {"CS", "None"}

(***************************************************************************)
(* Actions.                                                                *)
(***************************************************************************)
Idle ==
    /\ pc = "idle"
    /\ cs = new_cs("CS", << >>)
    /\ sponge = new_sponge
    /\ call = [fn |-> "none"]
    /\ ret = [status |-> "none"]

NoLast == [call |-> [op |-> "none"], before |-> new_wrapper(<< >>),
           ret |-> SynthesisError]

FreshWrapper(domain) ==
    /\ wrapper = new_wrapper(domain)
    /\ history = << >>
    /\ last = NoLast

\* a call of bits_le_to_nonnative(cs, batch) on a constraint system of one of
\* cs_kinds with at most `most` bits, each of one of the given kinds
CallBitsOn(cs_kinds, most, kinds) ==
    /\ pc = "idle"
    /\ \E kind \in cs_kinds, lens \in LengthLists(most) :
         \E flat \in [1 .. SumTo(lens, Len(lens)) -> BitChoices(kind, kinds)] :
            \E c0 \in {new_cs(kind, input_witness(kind, flat))},
               all_bits \in {batch_of(flat, lens)} :
              \E r \in {bits_le_to_nonnative(c0, all_bits)} :
                /\ call' = [fn |-> "bits_le_to_nonnative", cs |-> c0,
                            sponge |-> sponge, arg |-> all_bits]
                /\ cs' = r.cs
                /\ ret' = [status |-> r.status, gadgets |-> r.output, bits |-> << >>]
    /\ pc' = "done"
    /\ UNCHANGED sponge
    /\ UNCHANGED wrapper_vars

CallBitsUpTo(most, kinds) == CallBitsOn(CsKinds, most, kinds)

CallBitsLeToNonnative ==
    /\ pc = "idle"
    /\ CallBitsUpTo(MaxTotalBits, {"Constant", "Is"})

\* a call of sponge.squeeze_nonnative_field_elements_with_sizes::<F>(sizes)
CallSqueezeWithSizes ==
    /\ pc = "idle"
    /\ \E kind \in CsKinds, sizes \in SizeLists, ok \in BOOLEAN :
         \E bits \in BitStreams(ok, total_bits(sizes)) :
            \E c0 \in {new_cs(kind, << >>)} :
              \E r \in {squeeze_nonnative_field_elements_with_sizes(
                           sponge, c0, sizes, [ok |-> ok, bits |-> bits])} :
                /\ call' = [fn |-> "squeeze_nonnative_field_elements_with_sizes",
                            cs |-> c0, sponge |-> sponge, arg |-> sizes,
                            env |-> [ok |-> ok, bits |-> bits]]
                /\ cs' = r.cs
                /\ sponge' = r.sponge
                /\ ret' = [status |-> r.status, gadgets |-> r.gadgets, bits |-> r.bits]
    /\ pc' = "done"
    /\ UNCHANGED wrapper_vars

\* a call of sponge.squeeze_nonnative_field_elements::<F>(num_elements)
CallSqueezeNonnative ==
    /\ pc = "idle"
    /\ \E kind \in CsKinds, n \in 0 .. MaxSeqs, ok \in BOOLEAN :
         \E bits \in BitStreams(ok, n * F_size_in_bits) :
            \E c0 \in {new_cs(kind, << >>)} :
              \E r \in {squeeze_nonnative_field_elements(
                           sponge, c0, n, [ok |-> ok, bits |-> bits])} :
                /\ call' = [fn |-> "squeeze_nonnative_field_elements",
                            cs |-> c0, sponge |-> sponge, arg |-> n,
                            env |-> [ok |-> ok, bits |-> bits]]
                /\ cs' = r.cs
                /\ sponge' = r.sponge
                /\ ret' = [status |-> r.status, gadgets |-> r.gadgets, bits |-> r.bits]
    /\ pc' = "done"
    /\ UNCHANGED wrapper_vars

Init == Idle /\ FreshWrapper(<< >>)

Next == CallBitsLeToNonnative \/ CallSqueezeWithSizes \/ CallSqueezeNonnative

Spec == Init /\ [][Next]_vars

(***************************************************************************)
(* The prover's freedom: after synthesis the witness is whatever the       *)
(* prover assigns.  Tamper changes the value of one witness variable.      *)
(***************************************************************************)
CallBitsSmall ==
    /\ pc = "idle"
    /\ CallBitsUpTo(MaxTamperBits, {"Constant", "Is", "Not"})

Tamper ==
    /\ pc = "done"
    /\ \E v \in 1 .. Len(cs.witness), x \in CF :
         /\ x # cs.witness[v]
         /\ cs' = [cs EXCEPT !.witness[v] = x]
    /\ pc' = "tampered"
    /\ UNCHANGED << sponge, call, ret >>
    /\ UNCHANGED wrapper_vars

NextTamper == CallBitsSmall \/ Tamper

SpecTamper == Init /\ [][NextTamper]_vars

(***************************************************************************)
(* Vocabulary of the properties.                                           *)
(***************************************************************************)
IsBitsCall == pc = "done" /\ call.fn = "bits_le_to_nonnative"
IsSizedCall == pc = "done" /\ call.fn = "squeeze_nonnative_field_elements_with_sizes"

\* the limb base of the emulation parameters
LimbBase == Pow(2, params.bits_per_limb)

\* a gadget read as an element of F: its limb witness values weighted by the
\* powers of the limb base, most significant limb first
GadgetValue(g, w) ==
    SumTo([k \in 1 .. Len(g.limbs) |->
              var_value(w, g.limbs[k].variable) * Pow(LimbBase, Len(g.limbs) - k)],
          Len(g.limbs)) % F_MODULUS

\* the integer a little-endian bit sequence spells under the witness w
BitsValue(bits, w) ==
    SumTo([j \in 1 .. Len(bits) |->
              IF bit_value(bits[j], w) THEN Pow(2, j - 1) ELSE 0], Len(bits))

\* C3: every gadget returned by bits_le_to_nonnative, read as the weighted
\* sum of its limb witness values, equals the sum of bit[j] * 2^j of its bit
\* sequence reduced modulo the order of F.
C3_ReconstructionCorrect ==
    (IsBitsCall /\ ret.status = "Ok") =>
        /\ Len(ret.gadgets) = Len(call.arg)
        /\ \A i \in 1 .. Len(call.arg) :
              GadgetValue(ret.gadgets[i], cs.witness)
                  = BitsValue(call.arg[i], call.cs.witness) % F_MODULUS

\* a sequence whose integer exceeds the order of F has been reconstructed
C3_Witness ==
    /\ IsBitsCall /\ ret.status = "Ok"
    /\ \E i \in 1 .. Len(call.arg) :
          /\ BitsValue(call.arg[i], call.cs.witness) > F_MODULUS
          /\ GadgetValue(ret.gadgets[i], cs.witness) > 0

\* the offset of chunk i in the bit stream of a sized squeeze
ChunkOffset(sizes, i) == SumTo([m \in 1 .. Len(sizes) |-> num_bits(sizes[m])], i - 1)

\* squeeze_bits(total) called by hand on the sponge the sized squeeze started from
ManualSqueeze ==
    squeeze_bits(call.sponge, call.cs, ChunkOffset(call.arg, Len(call.arg) + 1), call.env)

\* C4: a sized squeeze with a non-empty size list makes exactly one
\* squeeze_bits call, for the sum of the sizes; chunk i is the slice of that
\* one stream starting at the sum of the earlier sizes, gadget i is the
\* reconstruction of chunk i.
C4_SizedSqueezeSlices ==
    (IsSizedCall /\ call.arg # << >>) =>
        /\ sponge.log = call.sponge.log
              \o << [op |-> "squeeze_bits",
                     arg |-> ChunkOffset(call.arg, Len(call.arg) + 1)] >>
        /\ ret.status = "Ok" =>
              /\ Len(ret.bits) = Len(call.arg)
              /\ Len(ret.gadgets) = Len(call.arg)
              /\ LET manual == ManualSqueeze
                 IN  /\ \A i \in 1 .. Len(call.arg) :
                           ret.bits[i] = SubSeq(manual.bits,
                                                ChunkOffset(call.arg, i) + 1,
                                                ChunkOffset(call.arg, i + 1))
                     /\ ret.gadgets = bits_le_to_nonnative(manual.cs, ret.bits).output
              /\ \A i \in 1 .. Len(call.arg) :
                    GadgetValue(ret.gadgets[i], cs.witness)
                        = BitsValue(ret.bits[i], cs.witness) % F_MODULUS

\* two chunks of different non-zero sizes have been squeezed
C4_Witness ==
    /\ IsSizedCall /\ ret.status = "Ok"
    /\ Len(call.arg) = 2
    /\ num_bits(call.arg[1]) # num_bits(call.arg[2])
    /\ num_bits(call.arg[1]) > 0 /\ num_bits(call.arg[2]) > 0
    /\ \E j \in 1 .. Len(ret.bits[2]) : bit_value(ret.bits[2][j], cs.witness)

\* C6: bits_le_to_nonnative yields either one gadget per input sequence or a
\* synthesis-error value, never an abort of another kind.
C6_FailureIsAnErrValue ==
    IsBitsCall =>
        \/ ret.status = "Ok" /\ Len(ret.gadgets) = Len(call.arg)
        \/ ret.status = "Err" /\ ret.gadgets = << >>

\* C7: bits_le_to_nonnative on an empty collection returns an empty list and
\* adds no witness variable and no constraint; a sized squeeze on an empty
\* size list returns empty lists and makes no squeeze_bits call.
C7_EmptyInputs ==
    /\ (IsBitsCall /\ call.arg = << >>) =>
          /\ ret.status = "Ok" /\ ret.gadgets = << >>
          /\ cs = call.cs
    /\ (IsSizedCall /\ call.arg = << >>) =>
          /\ ret.status = "Ok" /\ ret.gadgets = << >> /\ ret.bits = << >>
          /\ sponge = call.sponge
          /\ cs = call.cs

\* a sized squeeze with an empty size list has returned
C7_Witness == IsSizedCall /\ call.arg = << >> /\ ret.status = "Ok"

\* the limb values of a gadget
LimbValues(g) == [k \in 1 .. Len(g.limbs) |-> g.limbs[k].value]

\* C9: a batch returns one gadget per sequence, in input order, and gadget i
\* has the limb values of bits_le_to_nonnative called on sequence i alone.
C9_BatchIndependence ==
    (IsBitsCall /\ ret.status = "Ok") =>
        /\ Len(ret.gadgets) = Len(call.arg)
        /\ \A i \in 1 .. Len(call.arg) :
              LET alone == bits_le_to_nonnative(call.cs, << call.arg[i] >>)
              IN  /\ alone.status = "Ok"
                  /\ LimbValues(ret.gadgets[i]) = LimbValues(alone.output[1])

\* a batch of two sequences of different lengths, the shorter with a true bit
C9_Witness ==
    /\ IsBitsCall /\ ret.status = "Ok"
    /\ Len(call.arg) = 2
    /\ Len(call.arg[1]) < Len(call.arg[2])
    /\ \E j \in 1 .. Len(call.arg[1]) : bit_value(call.arg[1][j], call.cs.witness)
    /\ LimbValues(ret.gadgets[1]) # LimbValues(ret.gadgets[2])

\* C10: every returned gadget is flagged normal form with zero accumulated
\* additions, and each of its limb values is below 2^bits_per_limb.
C10_NormalForm ==
    (IsBitsCall /\ ret.status = "Ok") =>
        \A i \in 1 .. Len(ret.gadgets) :
            /\ ret.gadgets[i].is_in_the_normal_form
            /\ ret.gadgets[i].num_of_additions_over_normal_form = 0
            /\ \A k \in 1 .. Len(ret.gadgets[i].limbs) :
                  var_value(cs.witness, ret.gadgets[i].limbs[k].variable) < LimbBase

\* bits_le_to_nonnative has returned, and the prover may have changed a
\* witness value since
IsBitsRun == pc \in {"done", "tampered"} /\ call.fn = "bits_le_to_nonnative"

\* the value the bits of a sequence give limb k under the assignment w: the
\* sum over every bit position j of bit[j] * lookup_table[j][k], in CF
BitsLimbValue(bits, k, w) ==
    LET table == lookup_table(Len(bits))
    IN  SumTo([j \in 1 .. Len(bits) |-> lc_eval(bit_lc(bits[j]), w) * table[j][k]],
              Len(bits)) % CF_MODULUS

\* some limb variable does not hold the value its bits give it
SomeLimbMismatch ==
    \E i \in 1 .. Len(ret.gadgets) : \E k \in 1 .. params.num_limbs :
        var_value(cs.witness, ret.gadgets[i].limbs[k].variable)
            # BitsLimbValue(call.arg[i], k, cs.witness)

\* the assignment is the honest one but for the values of limb variables
OnlyLimbsChanged ==
    /\ \A v \in 1 .. Len(call.cs.witness) : cs.witness[v] = call.cs.witness[v]
    /\ \E i \in 1 .. Len(ret.gadgets) : \E k \in 1 .. params.num_limbs :
          cs.witness[ret.gadgets[i].limbs[k].variable] # ret.gadgets[i].limbs[k].value

\* C8: under any assignment in which some limb variable differs from the sum
\* of bit[j] * lookup_table[j][k] over its bits, the constraint system is
\* unsatisfied; the honest assignment satisfies it, and changing limb
\* witnesses alone after an honest run makes it unsatisfied.
C8_ConstraintSoundness ==
    (IsBitsRun /\ ret.status = "Ok") =>
        /\ SomeLimbMismatch => ~is_satisfied(cs)
        /\ pc = "done" => is_satisfied(cs)
        /\ OnlyLimbsChanged => ~is_satisfied(cs)

\* one limb witness has been changed after an honest run
C8_Witness ==
    /\ IsBitsRun /\ ret.status = "Ok"
    /\ pc = "tampered"
    /\ OnlyLimbsChanged
    /\ ~is_satisfied(cs)

(***************************************************************************)
(* The wrapper driven by a caller.  The domain identifier D is fixed when  *)
(* the wrapper is built; each action is one public operation.              *)
(***************************************************************************)
ByteVals == {0, 1}
Domains == UNION {[1 .. n -> ByteVals] : n \in 0 .. MaxDomainLen}

AbsorbInputs == {<< FpVariable(0), FpVariable(1) >>}
WrapperSizes == {<< Full >>}

\* the answers of the wrapped sponge that the operation can meet: the tag
\* absorb is made only while the flag is false, the forwarded call only
\* once the tag absorb has not failed
Envs(w) ==
    {e \in [tag_ok : BOOLEAN, fwd_ok : BOOLEAN] :
        /\ w.domain_separated => e.tag_ok
        /\ ~e.tag_ok => e.fwd_ok}

Operate(c) ==
    \E env \in Envs(wrapper) :
        \E r \in {wrapper_call(wrapper, c, env)} :
            /\ wrapper' = r.wrapper
            /\ history' = Append(history, [call |-> c, env |-> env])
            /\ last' = [call |-> c, before |-> wrapper, ret |-> r.ret]

Absorb ==
    /\ Len(history) < MaxOps
    /\ \E input \in AbsorbInputs : Operate([op |-> "absorb", arg |-> input])
    /\ UNCHANGED gadget_vars

SqueezeBytes ==
    /\ Len(history) < MaxOps
    /\ Operate([op |-> "squeeze_bytes", arg |-> 1])
    /\ UNCHANGED gadget_vars

SqueezeBits ==
    /\ Len(history) < MaxOps
    /\ Operate([op |-> "squeeze_bits", arg |-> 1])
    /\ UNCHANGED gadget_vars

SqueezeFieldElements ==
    /\ Len(history) < MaxOps
    /\ Operate([op |-> "squeeze_field_elements", arg |-> 1])
    /\ UNCHANGED gadget_vars

SqueezeNonnativeWithSizes ==
    /\ Len(history) < MaxOps
    /\ \E sizes \in WrapperSizes :
         Operate([op |-> "squeeze_nonnative_field_elements_with_sizes", arg |-> sizes])
    /\ UNCHANGED gadget_vars

SqueezeNonnative ==
    /\ Len(history) < MaxOps
    /\ \E n \in {1} :
         Operate([op |-> "squeeze_nonnative_field_elements", arg |-> n])
    /\ UNCHANGED gadget_vars

InitWrapper == Idle /\ \E d \in Domains : FreshWrapper(d)

NextWrapper ==
    \/ Absorb
    \/ SqueezeBytes
    \/ SqueezeBits
    \/ SqueezeFieldElements
    \/ SqueezeNonnativeWithSizes
    \/ SqueezeNonnative

SpecWrapper == InitWrapper /\ [][NextWrapper]_vars

(***************************************************************************)
(* Properties of the wrapper.                                              *)
(***************************************************************************)
WLog == wrapper.sponge.log
TagCalls == {i \in 1 .. Len(WLog) : WLog[i].origin = "tag"}
ForwardedCalls == {i \in 1 .. Len(WLog) : WLog[i].origin = "forward"}

\* the tag of the wrapper as the wrapped sponge is given it
TagVars ==
    LET elems == to_field_elements(wrapper.domain)
    IN  [i \in 1 .. Len(elems) |-> FpConstant(elems[i])]

\* C1 as stated: the wrapped sponge receives the tag absorb at most once, and
\* before every call the wrapper forwards.
C1_TagAtMostOnceAndFirst ==
    /\ Cardinality(TagCalls) <= 1
    /\ \A i \in TagCalls : \A j \in ForwardedCalls : i < j

\* C1, amended: the wrapped sponge receives at most one tag absorb that
\* succeeds; a tag absorb is followed by another only if it failed; every tag
\* absorb precedes every forwarded call, and a forwarded call is made only
\* after a tag absorb that succeeded.
C1_TagOnceUnlessFailedAndFirst ==
    /\ Cardinality({i \in TagCalls : WLog[i].ok}) <= 1
    /\ \A i \in TagCalls : \A j \in TagCalls : i < j => ~WLog[i].ok
    /\ \A i \in TagCalls : \A j \in ForwardedCalls : i < j
    /\ ForwardedCalls # {} => \E i \in TagCalls : WLog[i].ok
    /\ \A i \in TagCalls : WLog[i].op = "absorb" /\ WLog[i].arg = TagVars
    /\ wrapper.domain_separated <=> \E i \in TagCalls : WLog[i].ok

\* a failed tag absorb, the tag absorb again, then two forwarded calls
C1_Witness ==
    /\ Len(history) = 3
    /\ Len(WLog) = 4
    /\ TagCalls = {1, 2}
    /\ ~WLog[1].ok /\ WLog[2].ok
    /\ ForwardedCalls = {3, 4}

\* the call the wrapper makes on the wrapped sponge for the public operation
\* c: c itself, the unsized non-native squeeze being the sized one with
\* num_elements Full descriptors
ForwardOf(c) ==
    IF c.op = "squeeze_nonnative_field_elements"
    THEN [op |-> "squeeze_nonnative_field_elements_with_sizes",
          arg |-> [i \in 1 .. c.arg |-> Full]]
    ELSE c

\* log entry i of the wrapped sponge is the call c made as origin
IsEntry(i, c, origin) ==
    /\ WLog[i].op = c.op
    /\ WLog[i].arg = c.arg
    /\ WLog[i].origin = origin

\* the last operation made exactly the calls in entries, after the calls the
\* wrapped sponge had received before it
LastAdded(n) ==
    /\ Len(WLog) = Len(last.before.sponge.log) + n
    /\ SubSeq(WLog, 1, Len(last.before.sponge.log)) = last.before.sponge.log

\* what the wrapped sponge answered to the call of log entry i
AnswerOf(i) ==
    IF WLog[i].ok
    THEN [ok |-> TRUE, out |-> [m \in 1 .. i |-> [op |-> WLog[m].op, arg |-> WLog[m].arg]]]
    ELSE SynthesisError

TagAbsorb == [op |-> "absorb", arg |-> TagVars]

\* the last operation found the flag true and only forwarded its call
OnlyForwarded ==
    /\ LastAdded(1)
    /\ IsEntry(Len(WLog), ForwardOf(last.call), "forward")
    /\ last.ret = AnswerOf(Len(WLog))
    /\ wrapper.domain_separated

\* the last operation found the flag false, absorbed the tag, set the flag
\* and forwarded its call
SeparatedThenForwarded ==
    /\ LastAdded(2)
    /\ IsEntry(Len(WLog) - 1, TagAbsorb, "tag")
    /\ IsEntry(Len(WLog), ForwardOf(last.call), "forward")
    /\ last.ret = AnswerOf(Len(WLog))
    /\ wrapper.domain_separated

\* the last operation found the flag false and its tag absorb failed
TagAbsorbFailed ==
    /\ LastAdded(1)
    /\ IsEntry(Len(WLog), TagAbsorb, "tag")
    /\ ~WLog[Len(WLog)].ok
    /\ last.ret = SynthesisError
    /\ ~wrapper.domain_separated

RECURSIVE replay(_, _, _)
replay(d, h, n) ==
    IF n = 0 THEN [wrapper |-> new_wrapper(d), rets |-> << >>]
    ELSE LET prev == replay(d, h, n - 1)
             r == wrapper_call(prev.wrapper, h[n].call, h[n].env)
         IN  [wrapper |-> r.wrapper, rets |-> Append(prev.rets, r.ret)]

\* C5: a wrapper built with another domain identifier and driven by the same
\* operations forwards a different transcript to its wrapped sponge, and what a
\* squeeze returns differs whenever both return.
C5_DistinctDomainsSeparate ==
    \A d \in Domains :
        (d # wrapper.domain /\ history # << >>) =>
            LET other == replay(d, history, Len(history))
            IN  /\ transcript(other.wrapper.sponge) # transcript(wrapper.sponge)
                /\ (last.ret.ok /\ other.rets[Len(history)].ok)
                      => other.rets[Len(history)].out # last.ret.out

(***************************************************************************)
(* The unsized non-native squeeze, called on a sponge directly or on a     *)
(* wrapper that other squeezes have driven before.                         *)
(***************************************************************************)
DirectSqueezeNonnative ==
    /\ history = << >>
    /\ CallSqueezeNonnative

WrappedSqueezeNonnative ==
    /\ pc = "idle"
    /\ Len(history) < MaxOps
    /\ \E n \in 0 .. MaxSeqs :
         Operate([op |-> "squeeze_nonnative_field_elements", arg |-> n])
    /\ UNCHANGED gadget_vars

WrappedSqueezeWithSizes ==
    /\ pc = "idle"
    /\ Len(history) < MaxOps
    /\ \E sizes \in {<< >>, << Truncated(1) >>} :
         Operate([op |-> "squeeze_nonnative_field_elements_with_sizes", arg |-> sizes])
    /\ UNCHANGED gadget_vars

NextEquiv ==
    \/ DirectSqueezeNonnative
    \/ WrappedSqueezeNonnative
    \/ WrappedSqueezeWithSizes

\* a wrapper for the one-byte domain identifier [1]
InitEquiv == Idle /\ FreshWrapper(<< 1 >>)

SpecEquiv == InitEquiv /\ [][NextEquiv]_vars

IsUnsizedCall == pc = "done" /\ call.fn = "squeeze_nonnative_field_elements"
IsUnsizedOp == last.call.op = "squeeze_nonnative_field_elements"

\* n copies of FieldElementSize::Full
FullSizes(n) == [i \in 1 .. n |-> Full]

\* the sized squeeze with n Full descriptors, called where the unsized call
\* under study was
SizedDirect ==
    squeeze_nonnative_field_elements_with_sizes(
        call.sponge, call.cs, FullSizes(call.arg), call.env)

\* the wrapper's sized squeeze with n Full descriptors, called on the wrapper
\* the last operation found, the wrapped sponge answering the same
SizedWrapped ==
    wrapper_squeeze_nonnative_field_elements_with_sizes(
        last.before, FullSizes(last.call.arg), history[Len(history)].env)

\* C11: squeeze_nonnative_field_elements(n) leaves the sponge and the
\* constraint system, and returns the gadgets and bit chunks, exactly as the
\* sized squeeze with n Full descriptors does; for n = 0 it returns empty
\* lists and squeezes nothing; on the wrapper it leaves the wrapper (flag and
\* wrapped sponge's calls) and returns what the wrapper's sized squeeze does.
C11_UnsizedIsSizedWithFull ==
    /\ IsUnsizedCall =>
          /\ sponge = SizedDirect.sponge
          /\ cs = SizedDirect.cs
          /\ ret = [status |-> SizedDirect.status, gadgets |-> SizedDirect.gadgets,
                    bits |-> SizedDirect.bits]
          /\ ret.status = "Ok" =>
                /\ Len(ret.gadgets) = call.arg
                /\ Len(ret.bits) = call.arg
                /\ \A i \in 1 .. call.arg : Len(ret.bits[i]) = F_size_in_bits
          /\ call.arg = 0 =>
                /\ ret.status = "Ok" /\ ret.gadgets = << >> /\ ret.bits = << >>
                /\ sponge = call.sponge
          /\ call.arg > 0 =>
                sponge.log = call.sponge.log
                    \o << [op |-> "squeeze_bits", arg |-> call.arg * F_size_in_bits] >>
    /\ IsUnsizedOp =>
          /\ wrapper = SizedWrapped.wrapper
          /\ last.ret = SizedWrapped.ret
          /\ wrapper.domain_separated = SizedWrapped.wrapper.domain_separated

\* two elements have been squeezed directly, the second with a true bit
C11_Witness ==
    /\ IsUnsizedCall /\ ret.status = "Ok"
    /\ call.arg = 2
    /\ Len(ret.gadgets) = 2
    /\ \E j \in 1 .. F_size_in_bits : bit_value(ret.bits[2][j], cs.witness)

(***************************************************************************)
(* Runs of bits_le_to_nonnative on the same bits under different witnessed *)
(* values, a constraint system in setup mode included.                     *)
(***************************************************************************)
CallBitsSetup ==
    /\ pc = "idle"
    /\ CallBitsOn({"Setup"}, MaxTamperBits, {"Constant", "Is", "Not"})

NextRuns == CallBitsSmall \/ CallBitsSetup

SpecRuns == Init /\ [][NextRuns]_vars

\* the table of the call under study
CallTable == lookup_table(max_nonnative_bits(call.arg))

\* bit.lc() * lookup_table[j][k] for the first n bit positions j, in order
RECURSIVE AllBitsLc(_, _, _, _)
AllBitsLc(table, bits, k, n) ==
    IF n = 0 THEN << >>
    ELSE AllBitsLc(table, bits, k, n - 1) \o lc_scale(bit_lc(bits[n]), table[n][k])

\* lookup_table[j][k] summed over the positions j whose witnessed value under
\* w is true
TrueBitsVal(table, bits, k, w) ==
    SumTo([j \in 1 .. Len(bits) |->
              IF bit_value(bits[j], w) THEN table[j][k] ELSE 0], Len(bits))
        % CF_MODULUS

\* the constraint enforced for limb k of sequence i
ConstraintOf(i, k) == cs.constraints[(i - 1) * params.num_limbs + k]

\* the other runs: the same constraint system and bits, the bit variables
\* holding any values, or none
OtherRuns ==
    {[kind |-> "CS", witness |-> w] :
        w \in [1 .. Len(call.cs.witness) -> {0, 1}]}
    \cup {[kind |-> "Setup", witness |-> [v \in 1 .. Len(call.cs.witness) |-> NoValue]]}

RunOn(o) ==
    bits_le_to_nonnative([call.cs EXCEPT !.kind = o.kind, !.witness = o.witness], call.arg)

\* the variables of the limbs of a list of gadgets
LimbVariables(gadgets) ==
    [i \in 1 .. Len(gadgets) |->
        [k \in 1 .. Len(gadgets[i].limbs) |-> gadgets[i].limbs[k].variable]]

\* C12: the linear combination enforced for limb k is bit.lc() *
\* lookup_table[j][k] over every bit position j, minus the limb variable,
\* whatever the witnessed values; the limb's value is lookup_table[j][k]
\* summed over the positions whose witnessed value is true, a bit without a
\* value counting as false; a run on the same bits under other witnessed
\* values emits the same constraints on the same variables.
C12_LcOverAllBitsValOverTrueBits ==
    (IsBitsCall /\ ret.status = "Ok") =>
        /\ LET table == CallTable
           IN  \A i \in 1 .. Len(call.arg) : \A k \in 1 .. params.num_limbs :
                  /\ ConstraintOf(i, k).c
                        = AllBitsLc(table, call.arg[i], k, Len(call.arg[i]))
                            \o << [coeff |-> CF_MODULUS - 1,
                                   var |-> ret.gadgets[i].limbs[k].variable] >>
                  /\ ret.gadgets[i].limbs[k].value
                        = TrueBitsVal(table, call.arg[i], k, call.cs.witness)
                  /\ call.cs.kind = "CS" =>
                        cs.witness[ret.gadgets[i].limbs[k].variable]
                            = ret.gadgets[i].limbs[k].value
                  /\ call.cs.kind = "Setup" =>
                        ret.gadgets[i].limbs[k].value
                            = SumTo([j \in 1 .. Len(call.arg[i]) |->
                                        IF call.arg[i][j] = BoolConstant(TRUE)
                                        THEN table[j][k] ELSE 0],
                                    Len(call.arg[i])) % CF_MODULUS
        /\ \A o \in OtherRuns :
              LET other == RunOn(o)
              IN  /\ other.status = "Ok"
                  /\ other.cs.constraints = cs.constraints
                  /\ other.cs.log = cs.log
                  /\ LimbVariables(other.output) = LimbVariables(ret.gadgets)
                  /\ SubSeq(other.cs.witness, 1, Len(o.witness)) = o.witness

\* an allocated bit witnessed false stands in the constraint of a limb with a
\* non-zero coefficient, and a run under other values gives that limb
\* another value
C12_Witness ==
    /\ IsBitsCall /\ ret.status = "Ok" /\ call.cs.kind = "CS"
    /\ \E i \in 1 .. Len(call.arg) : \E k \in 1 .. params.num_limbs :
          /\ \E j \in 1 .. Len(call.arg[i]) :
                /\ call.arg[i][j].kind = "Is"
                /\ ~bit_value(call.arg[i][j], call.cs.witness)
                /\ CallTable[j][k] # 0
                /\ \E t \in 1 .. Len(ConstraintOf(i, k).c) :
                      ConstraintOf(i, k).c[t]
                          = [coeff |-> CallTable[j][k], var |-> call.arg[i][j].variable]
          /\ \E o \in OtherRuns :
                /\ RunOn(o).cs.constraints = cs.constraints
                /\ RunOn(o).output[i].limbs[k].value # ret.gadgets[i].limbs[k].value

\* what the call under study found in the constraint system
VarsBefore == Len(call.cs.witness)
ConstraintsBefore == Len(call.cs.constraints)

\* the position of limb k of sequence i in the order of emission
EmissionRank(i, k) == (i - 1) * params.num_limbs + k

\* C13: a run on N sequences adds N * num_limbs witness variables, each new,
\* and N * num_limbs constraints, each with both multiplicands the empty
\* linear combination; it emits, sequence by sequence in input order and
\* limb by limb in ascending index, the allocation of the limb and then at
\* once the constraint on that limb.
C13_AllocationsAndConstraintsInOrder ==
    (IsBitsCall /\ ret.status = "Ok") =>
        /\ Len(cs.witness) = VarsBefore + Len(call.arg) * params.num_limbs
        /\ SubSeq(cs.witness, 1, VarsBefore) = call.cs.witness
        /\ Len(cs.constraints) = ConstraintsBefore + Len(call.arg) * params.num_limbs
        /\ SubSeq(cs.constraints, 1, ConstraintsBefore) = call.cs.constraints
        /\ \A m \in (ConstraintsBefore + 1) .. Len(cs.constraints) :
              cs.constraints[m].a = lc_zero /\ cs.constraints[m].b = lc_zero
        /\ Len(cs.log) = Len(call.cs.log) + 2 * Len(call.arg) * params.num_limbs
        /\ SubSeq(cs.log, 1, Len(call.cs.log)) = call.cs.log
        /\ LET table == CallTable IN
           \A i \in 1 .. Len(call.arg) : \A k \in 1 .. params.num_limbs :
              LET p == EmissionRank(i, k)
                  c == cs.constraints[ConstraintsBefore + p].c
              IN  /\ ret.gadgets[i].limbs[k].variable = VarsBefore + p
                  /\ cs.log[Len(call.cs.log) + 2 * p - 1]
                        = [op |-> "new_witness", variable |-> VarsBefore + p]
                  /\ cs.log[Len(call.cs.log) + 2 * p]
                        = [op |-> "enforce_constraint", index |-> ConstraintsBefore + p]
                  /\ c[Len(c)] = [coeff |-> CF_MODULUS - 1, var |-> VarsBefore + p]
                  /\ SubSeq(c, 1, Len(c) - 1)
                        = AllBitsLc(table, call.arg[i], k, Len(call.arg[i]))

\* a batch of two non-empty sequences of allocated bits has been run, the
\* two limbs of the second sequence holding different values
C13_Witness ==
    /\ IsBitsCall /\ ret.status = "Ok"
    /\ Len(call.arg) = 2
    /\ Len(call.arg[1]) > 0 /\ Len(call.arg[2]) > 0
    /\ VarsBefore > 0
    /\ Len(cs.constraints) = 2 * params.num_limbs
    /\ ret.gadgets[2].limbs[1].value # ret.gadgets[2].limbs[2].value

\* the wrapped sponge answered the tag absorb of the last operation with an
\* error
LastTagAbsorbErred ==
    /\ last.call.op # "none"
    /\ ~last.before.domain_separated
    /\ ~history[Len(history)].env.tag_ok

\* the operation before the last left the wrapper with a failed tag absorb
\* as the last call on the wrapped sponge
RetryDue ==
    /\ last.call.op # "none"
    /\ last.before.sponge.log # << >>
    /\ last.before.sponge.log[Len(last.before.sponge.log)].origin = "tag"
    /\ ~last.before.sponge.log[Len(last.before.sponge.log)].ok

\* C14: an operation whose tag absorb is answered with an error returns that
\* error, makes no other call on the wrapped sponge and leaves
\* domain_separated false; the operation after it starts with the tag absorb
\* again.
C14_TagErrorReturnedAndRetried ==
    /\ LastTagAbsorbErred =>
          /\ LastAdded(1)
          /\ IsEntry(Len(WLog), TagAbsorb, "tag")
          /\ ~WLog[Len(WLog)].ok
          /\ last.ret = AnswerOf(Len(WLog))
          /\ ~last.ret.ok
          /\ ForwardedCalls = {}
          /\ ~wrapper.domain_separated
    /\ RetryDue =>
          /\ ~last.before.domain_separated
          /\ Len(WLog) > Len(last.before.sponge.log)
          /\ IsEntry(Len(last.before.sponge.log) + 1, TagAbsorb, "tag")
    /\ \A i \in TagCalls :
          (~WLog[i].ok /\ i < Len(WLog)) => IsEntry(i + 1, TagAbsorb, "tag")

\* the tag absorb of the first operation erred, the second operation
\* absorbed the tag again and was forwarded
C14_Witness ==
    /\ Len(history) = 2
    /\ ~history[1].env.tag_ok
    /\ RetryDue
    /\ Len(WLog) = 3
    /\ IsEntry(1, TagAbsorb, "tag") /\ ~WLog[1].ok
    /\ IsEntry(2, TagAbsorb, "tag") /\ WLog[2].ok
    /\ IsEntry(3, ForwardOf(last.call), "forward")
    /\ wrapper.domain_separated

(***************************************************************************)
(* The wrapper from new() on, under its absorbs and squeezes and under     *)
(* cs().                                                                   *)
(***************************************************************************)
QueryCs ==
    /\ Len(history) < MaxOps
    /\ \E r \in {wrapper_cs(wrapper, cs)} :
         /\ wrapper' = r.wrapper
         /\ history' = Append(history, [call |-> [op |-> "cs", arg |-> << >>],
                                        env |-> [tag_ok |-> TRUE, fwd_ok |-> TRUE]])
         /\ last' = [call |-> [op |-> "cs", arg |-> << >>], before |-> wrapper,
                     ret |-> r.ret]
    /\ UNCHANGED gadget_vars

NextLifecycle == NextWrapper \/ QueryCs

SpecLifecycle == InitEquiv /\ [][NextLifecycle]_vars

\* no operation but cs() has been called on the wrapper since new()
OnlyQueried == \A n \in 1 .. Len(history) : history[n].call.op = "cs"

\* the flag and the calls received by the wrapped sponge after new() and
\* after cs()
FlagFrame ==
    /\ history = << >> => (~wrapper.domain_separated /\ WLog = << >>)
    /\ last.call.op = "cs" =>
          /\ wrapper = last.before
          /\ last.ret = [ok |-> TRUE, out |-> cs]
    /\ OnlyQueried => (~wrapper.domain_separated /\ WLog = << >>)

\* C15: domain_separated is false after new(); no operation takes it from
\* true to false; new() and cs() make no call on the wrapped sponge and leave
\* the flag as it is, so a wrapper that has only been built and asked for
\* cs() has absorbed nothing.
C15_FlagStartsFalseAndIsMonotonic ==
    /\ []FlagFrame
    /\ [][wrapper.domain_separated => wrapper'.domain_separated]_vars

\* cs() has been called on a wrapper that had separated its domain, and on a
\* wrapper that had not
C15_Witness ==
    /\ Len(history) = 3
    /\ history[1].call.op = "cs"
    /\ history[2].call.op = "absorb"
    /\ last.call.op = "cs"
    /\ last.before.domain_separated
    /\ wrapper.domain_separated
    /\ Len(WLog) = 2

=============================================================================
